---- MODULE Spec2Model ----
(***************************************************************************)
(* Certificate verification of pam_pkcs11 (src/common/cert_vfy.c):         *)
(* verify_certificate builds an X509 store, delegates path validation to   *)
(* X509_verify_cert and then runs check_for_revocation under the caller's  *)
(* crl policy.  The model follows one call of verify_certificate.          *)
(*                                                                         *)
(* The OpenSSL collaborators (X509_STORE_new, X509_LOOKUP_add_dir,         *)
(* X509_verify_cert, X509_STORE_get_by_subject, get_from_uri, ...) are the *)
(* environment: each call draws its answer from the set of answers the     *)
(* library can give.                                                       *)
(***************************************************************************)
EXTENDS Integers, Sequences, FiniteSets, TLC

(* ------------------------------ bounds --------------------------------- *)
\* distribution points in a crlDistributionPoints extension
MaxPoints == 2
\* general names in the fullName of one distribution point
MaxNames == 2
\* entries in the revoked list of a CRL
MaxRevoked == 3
\* distinct serial numbers
NumSerials == 3
\* bits of size_t in the model (the build has 32 or 64)
SizeBits == 16

(* --------------------------- value domains ----------------------------- *)
\* crl_policy_t; CRLP_OTHER stands for any value outside the four policies
Policies == {"CRLP_NONE", "CRLP_AUTO", "CRLP_ONLINE", "CRLP_OFFLINE", "CRLP_OTHER"}

Serials == 1..NumSerials

SeqsUpTo(S, n) == UNION {[1..k -> S] : k \in 0..n}

Range(s) == {s[k] : k \in 1..Len(s)}

\* the revoked stack of a CRL: serial numbers, no serial listed twice
RevokedLists == {l \in SeqsUpTo(Serials, MaxRevoked) : Cardinality(Range(l)) = Len(l)}

\* GENERAL_NAME types: only GEN_URI is fetched; GEN_DNS stands for every
\* other name (a NULL stack entry is skipped by the same test, line 241)
NameTypes == {"GEN_URI", "GEN_DNS"}

\* a DIST_POINT: full = (distpoint != NULL && fullname != NULL)
DistPoints ==
  {[full |-> FALSE, names |-> <<>>]} \cup
  {[full |-> TRUE, names |-> ns] : ns \in SeqsUpTo(NameTypes, MaxNames)}

\* a decoded crlDistributionPoints extension
DistPointStacks == SeqsUpTo(DistPoints, MaxPoints)

\* return values of X509_STORE_get_by_subject, X509_CRL_verify (1, 0, <0)
\* and of X509_cmp_current_time (<0 earlier, 0 error, >0 later)
Tri == {-1, 0, 1}

\* what the library answers to the calls verify_crl makes
VerifyCrlInputs ==
  [issuerRv : Tri, pkey : BOOLEAN, sigRv : Tri, lastCmp : Tri, nextCmp : Tri]

\* what the collaborators answer to the calls download_crl makes:
\* getRv of get_from_uri, pem = both markers found in order, mallocOk,
\* b64 = return of base64_to_bin (-1, 0 or a positive length), d2iOk
DownloadInputs ==
  [getRv : {0, -1}, pem : BOOLEAN, mallocOk : BOOLEAN, b64 : {-1, 0, 1},
   d2iOk : BOOLEAN]

(* ------------------------- resource accounting ------------------------- *)
Resources == {"store", "lookup", "ctx"}

NoResources ==
  [acq |-> [r \in Resources |-> 0], rel |-> [r \in Resources |-> 0],
   stale |-> {}]

Acquire(res, r) == [res EXCEPT !.acq[r] = @ + 1]

Release(res, r) == [res EXCEPT !.rel[r] = @ + 1]

\* X509_LOOKUP_free(lookup)
X509_LOOKUP_free(res) == Release(res, "lookup")

\* X509_STORE_free(store): the store owns every lookup added to it with
\* X509_STORE_add_lookup and frees it together with itself
X509_STORE_free(res) ==
  IF res.acq["lookup"] > 0
  THEN Release(Release(res, "store"), "lookup")
  ELSE Release(res, "store")

\* X509_STORE_CTX_free(ctx)
X509_STORE_CTX_free(res) == Release(res, "ctx")

\* a read through the pointer r (ctx->error, or ctx handed to a lookup)
ReadRes(res, r) ==
  IF res.rel[r] > 0 THEN [res EXCEPT !.stale = @ \cup {r}] ELSE res

(* --------------------------- pure functions ---------------------------- *)
\* size_t conversion of an int (der_len = base64_to_bin(...), line 105)
ToSizeT(n) == n % (2^SizeBits)

\* what a call of download_crl leaves behind: crl = a CRL was returned
\* (FALSE is NULL), err = the error set, d2iLen = the length handed to
\* d2i_X509_CRL (<<>> when it is not called), and how often the fetched
\* buffer data and the decode buffer der were allocated and freed
DlOut(crl, err, d2iLen, dataAllocs, dataFrees, derAllocs, derFrees) ==
  [crl |-> crl, err |-> err, d2iLen |-> d2iLen,
   dataAllocs |-> dataAllocs, dataFrees |-> dataFrees,
   derAllocs |-> derAllocs, derFrees |-> derFrees]

D2iErr(ok) == IF ok THEN <<>> ELSE <<"d2i_X509_CRL() failed">>

\* download_crl(uri), lines 72-124, on the answers d of its collaborators
download_crl(d) ==
  IF d.getRv # 0
  THEN DlOut(FALSE, <<"get_from_uri() failed">>, <<>>, 0, 0, 0, 0)
  ELSE IF d.pem
  THEN IF ~d.mallocOk
       THEN DlOut(FALSE, <<"not enough free memory available">>, <<>>, 1, 1, 0, 0)
       ELSE IF ToSizeT(d.b64) <= 0
       THEN DlOut(FALSE, <<"invalid base64 (pem) format">>, <<>>, 1, 1, 1, 0)
       ELSE DlOut(d.d2iOk, D2iErr(d.d2iOk), <<ToSizeT(d.b64)>>, 1, 1, 1, 1)
  ELSE DlOut(d.d2iOk, D2iErr(d.d2iOk), <<"data_len">>, 1, 1, 0, 0)

\* as NotYetValid, with the sign of X509_cmp_current_time read the other way
NotYetValid_Negative(cmp) == cmp < 0

\* line 160, rv > 0 after X509_cmp_current_time(lastUpdate): lastUpdate is
\* later than the current time
NotYetValid(cmp) == cmp > 0

\* verify_crl(crl, ctx), lines 126-174, on the library's answers v:
\* rv = return value, err = error set (<<>> none), trail = the calls made
verify_crl(v) ==
  IF v.issuerRv <= 0
  THEN [rv |-> -1, err |-> <<"getting the certificate of the crl-issuer failed">>,
        trail |-> <<"issuer">>]
  ELSE IF ~v.pkey
  THEN [rv |-> -1, err |-> <<"getting the issuer's public key failed">>,
        trail |-> <<"issuer", "pubkey">>]
  ELSE IF v.sigRv < 0
  THEN [rv |-> -1, err |-> <<"X509_CRL_verify() failed">>,
        trail |-> <<"issuer", "pubkey", "signature">>]
  ELSE IF v.sigRv = 0
  THEN [rv |-> 0, err |-> <<>>, trail |-> <<"issuer", "pubkey", "signature">>]
  ELSE IF v.lastCmp = 0
  THEN [rv |-> -1, err |-> <<"crl has an invalid last update field">>,
        trail |-> <<"issuer", "pubkey", "signature", "lastUpdate">>]
  ELSE IF NotYetValid(v.lastCmp)
  THEN [rv |-> 0, err |-> <<>>,
        trail |-> <<"issuer", "pubkey", "signature", "lastUpdate">>]
  ELSE IF v.nextCmp = 0
  THEN [rv |-> -1, err |-> <<"crl has an invalid next update field">>,
        trail |-> <<"issuer", "pubkey", "signature", "lastUpdate", "nextUpdate">>]
  ELSE IF v.nextCmp < 0
  THEN [rv |-> 0, err |-> <<>>,
        trail |-> <<"issuer", "pubkey", "signature", "lastUpdate", "nextUpdate">>]
  ELSE [rv |-> 1, err |-> <<>>,
        trail |-> <<"issuer", "pubkey", "signature", "lastUpdate", "nextUpdate">>]

\* sk_X509_REVOKED_find(crl->crl->revoked, &rev), line 277: the index
\* (from 0) of the entry with serial number s, -1 if there is none
sk_X509_REVOKED_find(list, s) ==
  IF \E k \in 1..Len(list) : list[k] = s
  THEN (CHOOSE k \in 1..Len(list) : list[k] = s) - 1
  ELSE -1

RevokedVerdict_PositionZero(rv) == IF rv <= 0 THEN 1 ELSE 0

\* return (rv == -1), line 279
RevokedVerdict(rv) == IF rv = -1 THEN 1 ELSE 0

PathValid_OnlyZeroFails(rv) == rv # 0

\* if (rv != 1) after X509_verify_cert, line 342
PathValid(rv) == rv = 1

AutoFallback_OnRevoked(rv) == rv <= 0

\* if (rv < 0) after the ONLINE attempt of AUTO, line 201
AutoFallback(rv) == rv < 0

PolicyBranch_NoNone(p) ==
  IF p = "CRLP_AUTO" THEN "auto"
  ELSE IF p = "CRLP_OFFLINE" THEN "offline"
  ELSE IF p = "CRLP_ONLINE" THEN "online"
  ELSE "unsupported"

\* the if / else-if chain over policy, lines 194-265
PolicyBranch(p) ==
  IF p = "CRLP_NONE" THEN "none"
  ELSE IF p = "CRLP_AUTO" THEN "auto"
  ELSE IF p = "CRLP_OFFLINE" THEN "offline"
  ELSE IF p = "CRLP_ONLINE" THEN "online"
  ELSE "unsupported"

AutoNextPolicy_Auto == "CRLP_AUTO"

\* the policy of the second call made by AUTO, line 203
AutoNextPolicy == "CRLP_OFFLINE"

OuterLoopContinues_IgnoresCrl(i, n, crl) == i < n

\* i < sk_DIST_POINT_num(dist_points) && crl == NULL, line 235
OuterLoopContinues(i, n, crl) == i < n /\ crl = 0

AfterVerifyCrl_InvalidScanned(rv) == IF rv < 0 THEN "error" ELSE "scan"

\* the branches on rv after verify_crl, lines 269-275
AfterVerifyCrl(rv) ==
  IF rv < 0 THEN "error" ELSE IF rv = 0 THEN "invalid" ELSE "scan"

(* ------------------------------- state --------------------------------- *)
VARIABLES
  policy,       \* the policy argument of verify_certificate
  pc,           \* position in verify_certificate / check_for_revocation
  res,          \* store, lookup and ctx: acquisitions, releases, stale reads
  dirStep,      \* which of the four X509_LOOKUP_add_dir calls is next (1..4)
  verifyRv,     \* <<rv>> of X509_verify_cert, <<>> before the call
  frames,       \* policies of the active check_for_revocation calls
  cfrCalls,     \* every policy check_for_revocation was called with, in order
  rv,           \* value returned by the check_for_revocation call that ended
  dist_points,  \* the DIST_POINT stack walked by the ONLINE branch
  i,            \* index of the outer loop (distribution points)
  j,            \* index of the inner loop (general names)
  crl,          \* the crl local: 0 is NULL, k is the k-th CRL object obtained
  crlObjs,      \* CRL objects obtained: where from, how often freed
  fetchLog,     \* download_crl calls: position of the name and the outcome
  crlLookups,   \* X509_STORE_get_by_subject(X509_LU_CRL) calls made
  vc,           \* outcomes of the verify_crl calls of this attempt, in order
  findRv,       \* <<rv>> of sk_X509_REVOKED_find in this attempt
  listed,       \* <<b>>: the leaf's serial is in the revoked list scanned
  onlineRv,     \* <<rv>> of the ONLINE attempt made by AUTO
  offlineRv,    \* <<rv>> of the OFFLINE attempt made by AUTO
  result,       \* <<rv>> returned by verify_certificate, <<>> while running
  err,          \* the last-error slot written by set_error
  fn            \* a single call of one of the static functions: input, output

vars ==
  <<policy, pc, res, dirStep, verifyRv, frames, cfrCalls, rv, dist_points, i, j,
    crl, crlObjs, fetchLog, crlLookups, vc, findRv, listed, onlineRv, offlineRv,
    result, err, fn>>

\* the locals of the ONLINE loop
loopVars == <<dist_points, i, j>>

\* what one revocation attempt records about the CRL it holds
crlVars == <<crl, crlObjs, vc, findRv, listed>>

\* the bookkeeping of the AUTO frame
autoVars == <<onlineRv, offlineRv>>

\* verify_certificate's own state
vcVars == <<res, dirStep, verifyRv, result>>

\* no separate function call is under way
NoCall == [op |-> "none"]

Init ==
  /\ policy \in Policies
  /\ pc = "X509_STORE_new"
  /\ res = NoResources
  /\ dirStep = 1
  /\ verifyRv = <<>>
  /\ frames = <<>>
  /\ cfrCalls = <<>>
  /\ rv = 0
  /\ dist_points = <<>>
  /\ i = 0
  /\ j = 0
  /\ crl = 0
  /\ crlObjs = <<>>
  /\ fetchLog = <<>>
  /\ crlLookups = 0
  /\ vc = <<>>
  /\ findRv = <<>>
  /\ listed = <<>>
  /\ onlineRv = <<>>
  /\ offlineRv = <<>>
  /\ result = <<>>
  /\ err = <<>>
  /\ fn = NoCall

(* -------------------------- verify_certificate ------------------------- *)
\* "return r" from verify_certificate after set_error(e)
VcFail(r, e) ==
  /\ pc' = "done"
  /\ result' = <<r>>
  /\ err' = e

\* store = X509_STORE_new(), lines 290-294
vc_X509_STORE_new ==
  /\ pc = "X509_STORE_new"
  /\ \E ok \in BOOLEAN :
       IF ok
       THEN /\ res' = Acquire(res, "store")
            /\ pc' = "X509_STORE_add_lookup"
            /\ UNCHANGED <<result, err>>
       ELSE /\ VcFail(-1, <<"X509_STORE_new() failed">>)
            /\ UNCHANGED res
  /\ UNCHANGED <<fn, policy, dirStep, verifyRv, frames, cfrCalls, rv, loopVars,
                 crlVars, fetchLog, crlLookups, autoVars>>

\* lookup = X509_STORE_add_lookup(store, X509_LOOKUP_hash_dir()), lines 295-300
vc_X509_STORE_add_lookup ==
  /\ pc = "X509_STORE_add_lookup"
  /\ \E ok \in BOOLEAN :
       IF ok
       THEN /\ res' = Acquire(res, "lookup")
            /\ pc' = "X509_LOOKUP_add_dir"
            /\ UNCHANGED <<result, err>>
       ELSE /\ res' = X509_STORE_free(res)
            /\ VcFail(-1, <<"X509_STORE_add_lookup() failed">>)
  /\ UNCHANGED <<fn, policy, dirStep, verifyRv, frames, cfrCalls, rv, loopVars,
                 crlVars, fetchLog, crlLookups, autoVars>>

\* the four X509_LOOKUP_add_dir calls (ca_dir PEM, ca_dir ASN1, crl_dir PEM,
\* crl_dir ASN1), lines 301-330
vc_X509_LOOKUP_add_dir ==
  /\ pc = "X509_LOOKUP_add_dir"
  /\ \E r \in {0, 1} :
       IF r # 1
       THEN /\ res' = X509_STORE_free(X509_LOOKUP_free(res))
            /\ VcFail(-1, <<"X509_LOOKUP_add_dir() failed">>)
            /\ UNCHANGED dirStep
       ELSE /\ IF dirStep < 4
               THEN dirStep' = dirStep + 1 /\ pc' = pc
               ELSE dirStep' = dirStep /\ pc' = "X509_STORE_CTX_new"
            /\ UNCHANGED <<res, result, err>>
  /\ UNCHANGED <<fn, policy, verifyRv, frames, cfrCalls, rv, loopVars, crlVars,
                 fetchLog, crlLookups, autoVars>>

\* ctx = X509_STORE_CTX_new(), lines 331-336
vc_X509_STORE_CTX_new ==
  /\ pc = "X509_STORE_CTX_new"
  /\ \E ok \in BOOLEAN :
       IF ok
       THEN /\ res' = Acquire(res, "ctx")
            /\ pc' = "X509_verify_cert"
            /\ UNCHANGED <<result, err>>
       ELSE /\ res' = X509_STORE_free(res)
            /\ VcFail(-1, <<"X509_STORE_CTX_new() failed">>)
  /\ UNCHANGED <<fn, policy, dirStep, verifyRv, frames, cfrCalls, rv, loopVars,
                 crlVars, fetchLog, crlLookups, autoVars>>

\* X509_STORE_CTX_init, rv = X509_verify_cert(ctx) and the branch on it,
\* lines 337-351.  On failure ctx->error is read after X509_STORE_CTX_free:
\* the diagnostic that reaches set_error is whatever the freed memory holds.
vc_X509_verify_cert ==
  /\ pc = "X509_verify_cert"
  /\ \E r \in Tri :
       /\ verifyRv' = <<r>>
       /\ IF PathValid(r)
          THEN /\ frames' = <<policy>>
               /\ cfrCalls' = Append(cfrCalls, policy)
               /\ pc' = "cfr_entry"
               /\ UNCHANGED <<res, result, err>>
          ELSE /\ res' = ReadRes(X509_STORE_free(X509_STORE_CTX_free(res)), "ctx")
               /\ \E text \in {"X509_verify_cert_error_string", "indeterminate"} :
                    VcFail(0, <<"certificate is invalid", text>>)
               /\ UNCHANGED <<frames, cfrCalls>>
  /\ UNCHANGED <<fn, policy, dirStep, rv, loopVars, crlVars, fetchLog, crlLookups,
                 autoVars>>

\* back from check_for_revocation: release ctx and store, map rv, lines 351-362
vc_return ==
  /\ pc = "cfr_ret"
  /\ Len(frames) = 1
  /\ frames' = <<>>
  /\ res' = X509_STORE_free(X509_STORE_CTX_free(res))
  /\ IF rv < 0
     THEN VcFail(-1, <<"check_for_revocation() failed">> \o err)
     ELSE VcFail(rv, err)
  /\ UNCHANGED <<fn, policy, dirStep, verifyRv, cfrCalls, rv, loopVars, crlVars,
                 fetchLog, crlLookups, autoVars>>

(* ------------------------- check_for_revocation ------------------------ *)
\* the policy argument of the running check_for_revocation call
CurPolicy == frames[Len(frames)]

\* "return r" from the running check_for_revocation call
CfrReturn(r) ==
  /\ rv' = r
  /\ pc' = "cfr_ret"

\* X509_CRL_free(crl)
X509_CRL_free(objs, c) == [objs EXCEPT ![c].frees = @ + 1]

\* policy == CRLP_NONE, lines 194-197
cfr_none ==
  /\ pc = "cfr_entry"
  /\ PolicyBranch(CurPolicy) = "none"
  /\ CfrReturn(1)
  /\ UNCHANGED <<fn, policy, vcVars, frames, cfrCalls, loopVars, crlVars, fetchLog,
                 crlLookups, autoVars, err>>

\* policy == CRLP_AUTO: rv = check_for_revocation(x509, ctx, CRLP_ONLINE),
\* lines 198-200
cfr_auto ==
  /\ pc = "cfr_entry"
  /\ PolicyBranch(CurPolicy) = "auto"
  /\ frames' = Append(frames, "CRLP_ONLINE")
  /\ cfrCalls' = Append(cfrCalls, "CRLP_ONLINE")
  /\ pc' = "cfr_entry"
  /\ UNCHANGED <<fn, policy, vcVars, rv, loopVars, crlVars, fetchLog, crlLookups,
                 autoVars, err>>

\* the ONLINE attempt of AUTO has returned, lines 201-205
cfr_auto_after_online ==
  /\ pc = "cfr_ret"
  /\ Len(frames) = 2
  /\ frames[2] = "CRLP_ONLINE"
  /\ onlineRv' = <<rv>>
  /\ IF AutoFallback(rv)
     THEN /\ frames' = <<frames[1], AutoNextPolicy>>
          /\ cfrCalls' = Append(cfrCalls, AutoNextPolicy)
          /\ pc' = "cfr_entry"
     ELSE /\ frames' = <<frames[1]>>
          /\ pc' = "cfr_ret"
          /\ UNCHANGED cfrCalls
  /\ UNCHANGED <<fn, policy, vcVars, rv, loopVars, crlVars, fetchLog, crlLookups,
                 offlineRv, err>>

\* the OFFLINE attempt of AUTO has returned: return rv, lines 203-205
cfr_auto_after_offline ==
  /\ pc = "cfr_ret"
  /\ Len(frames) = 2
  /\ frames[2] = "CRLP_OFFLINE"
  /\ offlineRv' = <<rv>>
  /\ frames' = <<frames[1]>>
  /\ pc' = "cfr_ret"
  /\ UNCHANGED <<fn, policy, vcVars, cfrCalls, rv, loopVars, crlVars, fetchLog,
                 crlLookups, onlineRv, err>>

\* policy == CRLP_OFFLINE: look the issuer's CRL up in the store and
\* duplicate it, lines 206-215
cfr_offline ==
  /\ pc = "cfr_entry"
  /\ PolicyBranch(CurPolicy) = "offline"
  /\ crlLookups' = crlLookups + 1
  /\ res' = ReadRes(res, "ctx")
  /\ vc' = <<>>
  /\ findRv' = <<>>
  /\ listed' = <<>>
  /\ \E r \in Tri :
       IF r <= 0
       THEN /\ err' = <<"no dedicated crl available">>
            /\ CfrReturn(-1)
            /\ UNCHANGED <<crl, crlObjs>>
       ELSE /\ crlObjs' = Append(crlObjs, [src |-> "local", frees |-> 0])
            /\ crl' = Len(crlObjs')
            /\ pc' = "verify_crl"
            /\ UNCHANGED <<rv, err>>
  /\ UNCHANGED <<fn, policy, dirStep, verifyRv, result, frames, cfrCalls, loopVars,
                 fetchLog, autoVars>>

\* policy == CRLP_ONLINE: the crl distribution points of the leaf or, when
\* the leaf has none, of the ca certificate; crl = NULL, lines 216-234
cfr_online_dist_points ==
  /\ pc = "cfr_entry"
  /\ PolicyBranch(CurPolicy) = "online"
  /\ vc' = <<>>
  /\ findRv' = <<>>
  /\ listed' = <<>>
  /\ crl' = 0
  /\ i' = 0
  /\ \E leafHas \in BOOLEAN, caRv \in Tri, caHas \in BOOLEAN,
        ext \in DistPointStacks :
       IF leafHas
       THEN /\ dist_points' = ext
            /\ pc' = "online_point"
            /\ UNCHANGED <<res, rv, err>>
       ELSE /\ res' = ReadRes(res, "ctx")
            /\ IF caRv <= 0
               THEN /\ err' = <<"no dedicated ca certificate available">>
                    /\ CfrReturn(-1)
                    /\ UNCHANGED dist_points
               ELSE IF ~caHas
               THEN /\ err' =
                         <<"neither the user nor the ca certificate does contain a crl distribution point">>
                    /\ CfrReturn(-1)
                    /\ UNCHANGED dist_points
               ELSE /\ dist_points' = ext
                    /\ pc' = "online_point"
                    /\ UNCHANGED <<rv, err>>
  /\ UNCHANGED <<fn, policy, dirStep, verifyRv, result, frames, cfrCalls, j, crlObjs,
                 fetchLog, crlLookups, autoVars>>

\* neither of the four policies, lines 262-265
cfr_unsupported ==
  /\ pc = "cfr_entry"
  /\ PolicyBranch(CurPolicy) = "unsupported"
  /\ err' = <<"policy is not supported">>
  /\ CfrReturn(-1)
  /\ UNCHANGED <<fn, policy, vcVars, frames, cfrCalls, loopVars, crlVars, fetchLog,
                 crlLookups, autoVars>>

\* head of the outer loop and the test of the point, lines 235-238
cfr_online_point ==
  /\ pc = "online_point"
  /\ IF OuterLoopContinues(i, Len(dist_points), crl)
     THEN IF dist_points[i + 1].full
          THEN /\ j' = 0
               /\ pc' = "online_name"
               /\ UNCHANGED i
          ELSE /\ i' = i + 1
               /\ UNCHANGED <<j, pc>>
     ELSE /\ pc' = "online_done"
          /\ UNCHANGED <<i, j>>
  /\ UNCHANGED <<fn, policy, vcVars, frames, cfrCalls, rv, dist_points, crlVars,
                 fetchLog, crlLookups, autoVars, err>>

\* one pass of the inner loop: a GEN_URI name is downloaded, any other name
\* is skipped; a CRL ends the inner loop, lines 239-255
cfr_online_name ==
  /\ pc = "online_name"
  /\ LET names == dist_points[i + 1].names IN
       IF j < Len(names)
       THEN IF names[j + 1] = "GEN_URI"
            THEN \E d \in DownloadInputs :
                   LET r == download_crl(d) IN
                     /\ fetchLog' = Append(fetchLog, [i |-> i, j |-> j, ok |-> r.crl])
                     /\ IF r.crl
                        THEN /\ crlObjs' =
                                  Append(crlObjs, [src |-> "download", frees |-> 0])
                             /\ crl' = Len(crlObjs')
                             /\ i' = i + 1
                             /\ pc' = "online_point"
                             /\ UNCHANGED <<j, err>>
                        ELSE /\ crl' = 0
                             /\ err' = r.err
                             /\ j' = j + 1
                             /\ UNCHANGED <<i, pc, crlObjs>>
            ELSE /\ j' = j + 1
                 /\ UNCHANGED <<i, pc, crl, crlObjs, fetchLog, err>>
       ELSE /\ i' = i + 1
            /\ pc' = "online_point"
            /\ UNCHANGED <<j, crl, crlObjs, fetchLog, err>>
  /\ UNCHANGED <<fn, policy, vcVars, frames, cfrCalls, rv, dist_points, vc, findRv,
                 listed, crlLookups, autoVars>>

\* sk_DIST_POINT_pop_free(dist_points) and the test crl == NULL, lines 257-261
cfr_online_done ==
  /\ pc = "online_done"
  /\ dist_points' = <<>>
  /\ IF crl = 0
     THEN /\ err' = <<"downloading the crl failed for all distribution points">>
          /\ CfrReturn(-1)
     ELSE /\ pc' = "verify_crl"
          /\ UNCHANGED <<rv, err>>
  /\ UNCHANGED <<fn, policy, vcVars, frames, cfrCalls, i, j, crlVars, fetchLog,
                 crlLookups, autoVars>>

\* rv = verify_crl(crl, ctx) and the branches on it, lines 266-275
cfr_verify_crl ==
  /\ pc = "verify_crl"
  /\ res' = ReadRes(res, "ctx")
  /\ \E v \in VerifyCrlInputs :
       LET r == verify_crl(v)
           branch == AfterVerifyCrl(r.rv)
       IN /\ vc' = Append(vc, [rv |-> r.rv, trail |-> r.trail])
          /\ IF branch = "error"
             THEN /\ crlObjs' = X509_CRL_free(crlObjs, crl)
                  /\ err' = <<"verify_crl() failed">> \o r.err
                  /\ CfrReturn(-1)
             ELSE IF branch = "invalid"
             THEN /\ CfrReturn(0)
                  /\ UNCHANGED <<crlObjs, err>>
             ELSE /\ pc' = "scan"
                  /\ UNCHANGED <<crlObjs, rv, err>>
  /\ UNCHANGED <<fn, policy, dirStep, verifyRv, result, frames, cfrCalls, loopVars,
                 crl, findRv, listed, fetchLog, crlLookups, autoVars>>

\* the search for the leaf's serial number in the revoked list, X509_CRL_free
\* and return (rv == -1), lines 276-279
cfr_scan ==
  /\ pc = "scan"
  /\ \E serial \in Serials, revoked \in RevokedLists :
       LET found == sk_X509_REVOKED_find(revoked, serial) IN
         /\ findRv' = <<found>>
         /\ listed' = <<serial \in Range(revoked)>>
         /\ CfrReturn(RevokedVerdict(found))
  /\ crlObjs' = X509_CRL_free(crlObjs, crl)
  /\ UNCHANGED <<fn, policy, vcVars, frames, cfrCalls, loopVars, crl, vc, fetchLog,
                 crlLookups, autoVars, err>>

(* --------------------------- specification ----------------------------- *)
Next ==
  \/ vc_X509_STORE_new
  \/ vc_X509_STORE_add_lookup
  \/ vc_X509_LOOKUP_add_dir
  \/ vc_X509_STORE_CTX_new
  \/ vc_X509_verify_cert
  \/ vc_return
  \/ cfr_none
  \/ cfr_auto
  \/ cfr_auto_after_online
  \/ cfr_auto_after_offline
  \/ cfr_offline
  \/ cfr_online_dist_points
  \/ cfr_unsupported
  \/ cfr_online_point
  \/ cfr_online_name
  \/ cfr_online_done
  \/ cfr_verify_crl
  \/ cfr_scan

Spec == Init /\ [][Next]_vars

\* verify_certificate is straight-line sequential code: it keeps running
\* until it returns
FairSpec == Spec /\ WF_vars(Next)

(* ------------------------- base64_to_bin, bytes ------------------------ *)
\* characters of a base64 string tried, after its leading whole groups
MaxStr == 4
\* leading whole groups "QUJD" of a base64 string
MaxGroups == 1
\* bytes of memory that follow the terminating NUL of a string
MaxTail == 1
\* largest capacity buf_len tried
MaxBuf == 3

NUL == "NUL"

Upper ==
  <<"A", "B", "C", "D", "E", "F", "G", "H", "I", "J", "K", "L", "M",
    "N", "O", "P", "Q", "R", "S", "T", "U", "V", "W", "X", "Y", "Z">>

Lower ==
  <<"a", "b", "c", "d", "e", "f", "g", "h", "i", "j", "k", "l", "m",
    "n", "o", "p", "q", "r", "s", "t", "u", "v", "w", "x", "y", "z">>

Digits == <<"0", "1", "2", "3", "4", "5", "6", "7", "8", "9">>

IndexOf(seq, c) == CHOOSE k \in 1..Len(seq) : seq[k] = c

\* the characters the if / else-if chain of lines 38-47 gives a value
IsAlphabetChar(c) ==
  c \in Range(Upper) \cup Range(Lower) \cup Range(Digits) \cup {"+", "/"}

\* char -> int, lines 38-47
B64Val(c) ==
  IF c \in Range(Upper) THEN IndexOf(Upper, c) - 1
  ELSE IF c \in Range(Lower) THEN (IndexOf(Lower, c) - 1) + 26
  ELSE IF c \in Range(Digits) THEN (IndexOf(Digits, c) - 1) + 52
  ELSE IF c = "+" THEN 62
  ELSE 63

\* strlen(str): the bytes before the first NUL of mem
strlen(mem) == (CHOOSE k \in 1..Len(mem) : mem[k] = NUL /\ \A h \in 1..(k - 1) : mem[h] # NUL) - 1

\* an unsigned char
ToByte(n) == n % 256

Overflows_OffByOne(length, buf_len) == length > buf_len + 1

\* ++length > buf_len, lines 55, 60, 65 (length is the incremented value)
Overflows(length, buf_len) == length > buf_len

\* --str_len: a size_t decrement, line 51
DecStrLen(n) == ToSizeT(n - 1)

\* What a call of base64_to_bin did.  status "return": it returned ret;
\* status "fault": it read outside the memory of the process.  out = the
\* bytes written to buf in order, reads = the number of characters read
\* (the indices 0 .. reads-1 of str), skipped = characters read that were
\* neither alphabet nor '='
B64Result(status, ret, st) ==
  [status |-> status, ret |-> ret, out |-> st.out, reads |-> st.p,
   skipped |-> st.skipped]

\* the locals of base64_to_bin: p = characters read so far (str - the
\* argument), n = str_len, val, pad = pad_len, length, out = bytes written
\* through b, skipped = characters read that were given no value
B64Locals ==
  [p : Nat, n : Nat, val : Seq(Nat), pad : Nat, length : Nat, out : Seq(Nat),
   skipped : Nat]

\* a point of the run at the head of the for loop: the memory from str on,
\* the capacity, the locals and i
B64Points == [mem : Seq(STRING), buf_len : Nat, st : B64Locals, k : 0..4]

RECURSIVE B64Emit(_, _, _)

\* one pass of the body of the for loop, lines 38-51: the character at str
\* is given a value or not, then str++ and --str_len
B64Char(at) ==
  LET c == at.mem[at.st.p + 1]
      nx == [at.st EXCEPT !.p = @ + 1, !.n = DecStrLen(@)]
  IN IF IsAlphabetChar(c)
     THEN [at EXCEPT !.st = [nx EXCEPT !.val[at.k + 1] = B64Val(c)], !.k = @ + 1]
     ELSE IF c = "="
     THEN [at EXCEPT !.st = [nx EXCEPT !.val[at.k + 1] = 0, !.pad = @ + 1], !.k = @ + 1]
     ELSE [at EXCEPT !.st = [nx EXCEPT !.skipped = @ + 1]]

\* the for loop that collects four values, lines 37-53; at.k is i.  A read
\* behind the last byte of mem is a read outside the memory of the process
B64Inner[at \in B64Points] ==
  CASE at.k >= 4 -> B64Emit(at.mem, at.buf_len, at.st)
    [] at.k < 4 /\ at.st.p >= Len(at.mem) -> B64Result("fault", 0, at.st)
    [] at.k < 4 /\ at.st.p < Len(at.mem) /\ B64Char(at).st.n < 0 ->
         B64Result("return", -1, B64Char(at).st)
    [] OTHER -> B64Inner[B64Char(at)]

\* while (str_len > 3), line 35, and return length, line 69
B64Outer(mem, buf_len, st) ==
  IF st.n > 3
  THEN B64Inner[[mem |-> mem, buf_len |-> buf_len, st |-> st, k |-> 0]]
  ELSE B64Result("return", st.length, st)

\* 32bit -> 24bit, lines 54-67, then back to the head of the while loop
B64Emit(mem, buf_len, st) ==
  LET v == st.val
      b1 == ToByte(v[1] * 4 + v[2] \div 16)
      b2 == ToByte(v[2] * 16 + v[3] \div 4)
      b3 == ToByte(v[3] * 64 + v[4])
      s1 == [st EXCEPT !.length = @ + 1]
      w1 == [s1 EXCEPT !.out = Append(@, b1)]
      s2 == [w1 EXCEPT !.length = @ + 1]
      w2 == [s2 EXCEPT !.out = Append(@, b2)]
      s3 == [w2 EXCEPT !.length = @ + 1]
      w3 == [s3 EXCEPT !.out = Append(@, b3)]
  IN CASE Overflows(s1.length, buf_len) -> B64Result("return", -1, s1)
       [] ~Overflows(s1.length, buf_len) /\ st.pad = 2 -> B64Result("return", w1.length, w1)
       [] ~Overflows(s1.length, buf_len) /\ st.pad # 2 /\ Overflows(s2.length, buf_len) ->
            B64Result("return", -1, s2)
       [] ~Overflows(s2.length, buf_len) /\ st.pad = 1 -> B64Result("return", w2.length, w2)
       [] ~Overflows(s2.length, buf_len) /\ st.pad \notin {1, 2}
            /\ Overflows(s3.length, buf_len) -> B64Result("return", -1, s3)
       [] OTHER -> B64Outer(mem, buf_len, w3)

\* base64_to_bin(str, buf, buf_len), lines 27-70; mem is the memory from
\* str on: the string, its terminating NUL and the bytes that follow it
base64_to_bin(mem, buf_len) ==
  B64Outer(mem, buf_len,
           [p |-> 0, n |-> ToSizeT(strlen(mem)), val |-> <<0, 0, 0, 0>>, pad |-> 0,
            length |-> 0, out |-> <<>>, skipped |-> 0])

(* -------------------------- download_crl, bytes ------------------------ *)
\* the length arguments of the two strncmp calls, lines 86-94
BeginLen == 24
EndLen == 22

\* "-----BEGIN X509 CRL-----", line 87
BeginMarker ==
  <<"-", "-", "-", "-", "-", "B", "E", "G", "I", "N", " ", "X", "5", "0", "9",
    " ", "C", "R", "L", "-", "-", "-", "-", "-">>

\* "-----END X509 CRL-----", line 91
EndMarker ==
  <<"-", "-", "-", "-", "-", "E", "N", "D", " ", "X", "5", "0", "9",
    " ", "C", "R", "L", "-", "-", "-", "-", "-">>

\* strncmp(&mem[i], marker, n) == 0 with every byte read inside mem
MatchAt(mem, at, marker, n) ==
  /\ at + n <= Len(mem)
  /\ \A k \in 1..n : mem[at + k] = marker[k]

\* the bytes strncmp(&mem[i], marker, n) reads: up to the first difference
CmpReads(mem, at, marker, n) ==
  LET same == {k \in 0..n : \A h \in 1..k : at + h <= Len(mem) /\ mem[at + h] = marker[h]}
      pre == CHOOSE k \in same : \A k2 \in same : k2 <= k
  IN IF pre = n THEN n ELSE pre + 1

\* the comparison at i runs off the end of the memory of the process
FaultAt(mem, at, marker, n) == at + CmpReads(mem, at, marker, n) > Len(mem)

\* for (i = 0; i <= data_len - n; i++) if (!strncmp(&data[i], marker, n))
\* break;  lines 86-93.  mem is data followed by the bytes that lie behind
\* the allocation.  idx = the value of the loop variable after the loop,
\* fault = the scan read outside the memory of the process, oob = it read a
\* byte at an index >= data_len
MarkerScan(mem, data_len, marker, n) ==
  LET bound == ToSizeT(data_len - n)
      last == IF bound < Len(mem) THEN bound ELSE Len(mem)
      stops == {at \in 0..last : MatchAt(mem, at, marker, n) \/ FaultAt(mem, at, marker, n)}
      stop == CHOOSE at \in stops : \A at2 \in stops : at <= at2
      visited == IF stops = {} THEN 0..last ELSE 0..stop
  IN [idx |-> IF stops = {} THEN bound + 1 ELSE stop,
      fault |-> stops # {} /\ FaultAt(mem, stop, marker, n),
      oob |-> \E at \in visited : at + CmpReads(mem, at, marker, n) > data_len]

\* i <= data_len - 24 && j <= data_len - 22 && i < j, line 94
IsPem(at, ej, data_len) ==
  at <= ToSizeT(data_len - BeginLen) /\ ej <= ToSizeT(data_len - EndLen) /\ at < ej

\* What download_crl does with the buffer get_from_uri returned, lines
\* 85-120.  c.data is the buffer, c.heap the bytes behind it, c.mallocOk and
\* c.d2iOk the answers of malloc and d2i_X509_CRL.  path = the branch of line
\* 94 taken, fault = the call read outside the memory of the process,
\* oobRead / oobWrite = a byte outside data was read / written,
\* b64 = <<what base64_to_bin did>>, res = the outcome of download_crl
DownloadBuffer(c) ==
  LET mem == c.data \o c.heap
      data_len == Len(c.data)
      sb == MarkerScan(mem, data_len, BeginMarker, BeginLen)
      se == MarkerScan(mem, data_len, EndMarker, EndLen)
      at == sb.idx
      ej == se.idx
      cut == [mem EXCEPT ![ej + 1] = NUL]
      str == SubSeq(cut, at + BeginLen + 1, Len(cut))
      der_len == (ej - at) + 1
      dec == base64_to_bin(str, der_len)
      d == [getRv |-> 0, pem |-> TRUE, mallocOk |-> c.mallocOk, b64 |-> 0,
            d2iOk |-> c.d2iOk]
      Out(path, fault, oobWrite, b64, r) ==
        [path |-> path, fault |-> fault, i |-> at, j |-> ej,
         oobRead |-> sb.oob \/ se.oob, oobWrite |-> oobWrite, b64 |-> b64,
         res |-> r]
  IN IF sb.fault \/ se.fault
     THEN Out("none", TRUE, FALSE, <<>>, <<>>)
     ELSE IF ~IsPem(at, ej, data_len)
     THEN Out("der", FALSE, FALSE, <<>>,
              <<[download_crl([d EXCEPT !.pem = FALSE]) EXCEPT !.d2iLen = <<data_len>>]>>)
     ELSE IF ~c.mallocOk
     THEN Out("base64", FALSE, FALSE, <<>>, <<download_crl(d)>>)
     ELSE IF NUL \notin Range(str)
     THEN Out("base64", TRUE, ej >= data_len, <<>>, <<>>)
     ELSE IF dec.status = "fault"
     THEN Out("base64", TRUE, ej >= data_len, <<dec>>, <<>>)
     ELSE Out("base64", FALSE, ej >= data_len, <<dec>>,
              <<download_crl([d EXCEPT !.b64 = dec.ret])>>)

(* ------------------ single calls of the static functions --------------- *)
Repeat(s, n) == [k \in 1..(n * Len(s)) |-> s[((k - 1) % Len(s)) + 1]]

\* characters tried in base64 strings: alphabet, padding, a line break
B64Chars == {"Q", "=", "\n"}

\* the calls tried of base64_to_bin
Base64Calls ==
  [op : {"base64_to_bin"},
   str : {Repeat(<<"Q", "U", "J", "D">>, g) \o t :
            g \in 0..MaxGroups, t \in SeqsUpTo(B64Chars, MaxStr)},
   tail : SeqsUpTo({"Q", "\n"}, MaxTail),
   buf_len : 0..MaxBuf,
   out : {<<>>}]

\* the calls tried of verify_crl
VerifyCrlCalls == [op : {"verify_crl"}, in : VerifyCrlInputs, out : {<<>>}]

\* a second PEM body behind the END marker
LongTail == Repeat(<<"Q">>, BeginLen + EndLen)

\* the buffers tried: an optional first byte of a DER SEQUENCE, up to two
\* markers around a base64 body, and what follows them
Buffers ==
  {pre \o m1 \o body \o m2 \o post :
     pre \in {<<>>, <<"0">>},
     m1 \in {<<>>, BeginMarker, EndMarker},
     body \in SeqsUpTo({"Q", "\n"}, MaxStr),
     m2 \in {<<>>, BeginMarker, EndMarker},
     post \in {<<>>, LongTail}}

\* the calls tried of download_crl after a successful get_from_uri; the heap
\* behind a buffer is unmapped or happens to hold an armoured CRL
DownloadCalls ==
  [op : {"download_crl"},
   data : Buffers,
   heap : {<<>>, BeginMarker \o <<"Q", "U", "J", "D">> \o EndMarker},
   mallocOk : BOOLEAN,
   d2iOk : BOOLEAN,
   out : {<<>>}]

\* verify_certificate is not running
Idle ==
  /\ policy = "CRLP_NONE"
  /\ pc = "idle"
  /\ res = NoResources
  /\ dirStep = 1
  /\ verifyRv = <<>>
  /\ frames = <<>>
  /\ cfrCalls = <<>>
  /\ rv = 0
  /\ dist_points = <<>>
  /\ i = 0
  /\ j = 0
  /\ crl = 0
  /\ crlObjs = <<>>
  /\ fetchLog = <<>>
  /\ crlLookups = 0
  /\ vc = <<>>
  /\ findRv = <<>>
  /\ listed = <<>>
  /\ onlineRv = <<>>
  /\ offlineRv = <<>>
  /\ result = <<>>
  /\ err = <<>>

mainVars ==
  <<policy, pc, res, dirStep, verifyRv, frames, cfrCalls, rv, dist_points, i, j,
    crl, crlObjs, fetchLog, crlLookups, vc, findRv, listed, onlineRv, offlineRv,
    result, err>>

FnInit ==
  /\ Idle
  /\ fn \in Base64Calls \cup VerifyCrlCalls \cup DownloadCalls

\* one call of base64_to_bin
call_base64_to_bin ==
  /\ fn.op = "base64_to_bin"
  /\ fn.out = <<>>
  /\ fn' = [fn EXCEPT !.out = <<base64_to_bin(fn.str \o <<NUL>> \o fn.tail, fn.buf_len)>>]
  /\ UNCHANGED mainVars

\* one call of verify_crl
call_verify_crl ==
  /\ fn.op = "verify_crl"
  /\ fn.out = <<>>
  /\ fn' = [fn EXCEPT !.out = <<verify_crl(fn.in)>>]
  /\ UNCHANGED mainVars

\* one call of download_crl whose get_from_uri succeeded
call_download_crl ==
  /\ fn.op = "download_crl"
  /\ fn.out = <<>>
  /\ fn' = [fn EXCEPT !.out = <<DownloadBuffer(fn)>>]
  /\ UNCHANGED mainVars

FnNext ==
  \/ call_base64_to_bin
  \/ call_verify_crl
  \/ call_download_crl

FnSpec == FnInit /\ [][FnNext]_vars

(* ------------------------------ properties ----------------------------- *)
Done == pc = "done"

\* X509_verify_cert was called and did not return 1
PathFailed == verifyRv # <<>> /\ verifyRv # <<1>>

\* verify_crl was called in the last attempt and returned r
VerifyCrlReturned(r) == vc # <<>> /\ vc[Len(vc)].rv = r

\* The URI-typed full-name entries of a distribution point stack in
\* certificate-encoded order, as positions <<point, name>> counted from 0
RECURSIVE UriSeqFrom(_, _, _)
UriSeqFrom(dp, a, b) ==
  IF a >= Len(dp) THEN <<>>
  ELSE IF ~dp[a + 1].full \/ b >= Len(dp[a + 1].names) THEN UriSeqFrom(dp, a + 1, 0)
  ELSE (IF dp[a + 1].names[b + 1] = "GEN_URI" THEN << <<a, b>> >> ELSE <<>>)
       \o UriSeqFrom(dp, a, b + 1)

UriSeq(dp) == UriSeqFrom(dp, 0, 0)

\* the positions download_crl was called on, in call order
FetchedPositions == [k \in 1..Len(fetchLog) |-> <<fetchLog[k].i, fetchLog[k].j>>]

IsPrefix(s, t) == Len(s) <= Len(t) /\ \A k \in 1..Len(s) : s[k] = t[k]

\* C1: whenever path validation fails (X509_verify_cert does not return 1),
\* verify_certificate returns Error(-1) with the library's diagnostic, never
\* Revoked(0) or NotRevoked(1), for every policy.
C1_PathFailureReturnsError ==
  (Done /\ PathFailed) =>
    /\ result = <<-1>>
    /\ err = <<"certificate is invalid", "X509_verify_cert_error_string">>

\* C2: when verify_crl returns 0 (invalid or expired) for the CRL in hand,
\* verify_certificate yields Error(-1), neither NotRevoked(1) nor Revoked(0).
C2_InvalidCrlIsIndeterminate ==
  (Done /\ VerifyCrlReturned(0)) => result = <<-1>>

\* C3: verify_certificate returns NotRevoked(1) only if path validation
\* succeeded and either the policy is NONE, or a CRL was obtained, verify_crl
\* returned 1 for it and the leaf's serial is absent from its revoked list.
C3_NotRevokedOnlyWhenChecked ==
  (Done /\ result = <<1>>) =>
    /\ verifyRv = <<1>>
    /\ \/ policy = "CRLP_NONE"
       \/ /\ policy \in {"CRLP_OFFLINE", "CRLP_ONLINE", "CRLP_AUTO"}
          /\ crl # 0
          /\ VerifyCrlReturned(1)
          /\ listed = <<FALSE>>

C3_Witness ==
  /\ Done
  /\ result = <<1>>
  /\ policy = "CRLP_ONLINE"
  /\ VerifyCrlReturned(1)
  /\ listed = <<FALSE>>

\* What the OFFLINE branch yields for the answers the local store gave in
\* this run: no CRL for the issuer, or the CRL's verification and scan
OfflineOutcome ==
  IF crl = 0 \/ crlObjs[crl].src # "local" THEN -1
  ELSE IF vc = <<>> \/ vc[1].rv < 0 THEN -1
  ELSE IF vc[1].rv = 0 THEN 0
  ELSE IF listed = <<TRUE>> THEN 0 ELSE 1

\* C4: under AUTO the result is the result of the ONLINE attempt when that
\* attempt returns >= 0, and then no OFFLINE lookup is made; it is the result
\* of the OFFLINE attempt when the ONLINE attempt returns < 0.
C4_AutoOnlineThenOffline ==
  (Done /\ policy = "CRLP_AUTO" /\ verifyRv = <<1>>) =>
    /\ onlineRv # <<>>
    /\ IF onlineRv[1] >= 0
       THEN /\ result = onlineRv
            /\ offlineRv = <<>>
            /\ crlLookups = 0
            /\ cfrCalls = <<"CRLP_AUTO", "CRLP_ONLINE">>
       ELSE /\ offlineRv # <<>>
            /\ result = offlineRv
            /\ result = <<OfflineOutcome>>
            /\ crlLookups = 1
            /\ cfrCalls = <<"CRLP_AUTO", "CRLP_ONLINE", "CRLP_OFFLINE">>

C4_Witness ==
  /\ Done
  /\ policy = "CRLP_AUTO"
  /\ Len(fetchLog) >= 2
  /\ \A k \in 1..Len(fetchLog) : ~fetchLog[k].ok
  /\ onlineRv = <<-1>>
  /\ offlineRv = <<1>>
  /\ result = <<1>>

\* C5: under ONLINE download_crl is called on the URI-typed full-name entries
\* in certificate order; a failed download moves on to the next URI; nothing
\* is fetched after the first URI that yields a CRL; and the "failed for all
\* distribution points" error is returned only after every URI was tried and
\* failed.
C5_OnlineFetchOrder ==
  /\ \A k \in 1..Len(fetchLog) : fetchLog[k].ok => k = Len(fetchLog)
  /\ pc \in {"online_point", "online_name", "online_done"} =>
       /\ IsPrefix(FetchedPositions, UriSeq(dist_points))
       /\ crl # 0 <=> (fetchLog # <<>> /\ fetchLog[Len(fetchLog)].ok)
       /\ (pc = "online_done" /\ crl = 0) => FetchedPositions = UriSeq(dist_points)
  /\ (pc = "cfr_ret" /\ rv = -1
        /\ err = <<"downloading the crl failed for all distribution points">>) =>
       \A k \in 1..Len(fetchLog) : ~fetchLog[k].ok

C5_Witness ==
  /\ pc = "online_done"
  /\ Len(fetchLog) = 2
  /\ ~fetchLog[1].ok
  /\ fetchLog[2].ok
  /\ fetchLog[2].i = 0
  /\ Len(UriSeq(dist_points)) > 2

\* C6: with policy NONE and successful path validation verify_certificate
\* returns NotRevoked(1) and makes no fetch, no local CRL lookup and no CRL
\* verification.
C6_NoneNoIo ==
  policy = "CRLP_NONE" =>
    /\ fetchLog = <<>>
    /\ crlLookups = 0
    /\ vc = <<>>
    /\ crlObjs = <<>>
    /\ (Done /\ verifyRv = <<1>>) => result = <<1>>

C6_Witness ==
  /\ Done
  /\ policy = "CRLP_NONE"
  /\ verifyRv = <<1>>
  /\ cfrCalls = <<"CRLP_NONE">>
  /\ result = <<1>>

\* C7: when path validation fails, check_for_revocation is never called and
\* no CRL lookup, fetch or CRL verification occurs before verify_certificate
\* returns, for every policy.
C7_NoRevocationAfterPathFailure ==
  PathFailed =>
    /\ Done
    /\ cfrCalls = <<>>
    /\ fetchLog = <<>>
    /\ crlLookups = 0
    /\ vc = <<>>
    /\ crlObjs = <<>>

C7_Witness ==
  /\ Done
  /\ verifyRv = <<-1>>
  /\ policy = "CRLP_AUTO"

\* C8: once a CRL that verify_crl reports Valid is in hand, the result is
\* Revoked(0) if and only if the revoked list contains the leaf's serial
\* number, and NotRevoked(1) otherwise, wherever the entry is in the list.
C8_VerdictIffSerialListed ==
  (pc \in {"cfr_ret", "done"} /\ VerifyCrlReturned(1)) =>
    /\ listed # <<>>
    /\ rv = (IF listed[1] THEN 0 ELSE 1)
    /\ Done => result = <<rv>>

C8_Witness ==
  /\ Done
  /\ VerifyCrlReturned(1)
  /\ findRv = <<1>>
  /\ listed = <<TRUE>>
  /\ result = <<0>>

\* C9: on every exit path of verify_certificate each acquired store, lookup
\* and validation context is released exactly once, and none of them is read
\* or released again after it has been released.
C9_ResourcesReleasedOnce ==
  /\ Done => \A r \in Resources : res.rel[r] = res.acq[r]
  /\ \A r \in Resources : res.rel[r] <= 1
  /\ res.stale = {}

\* C10: every CRL object obtained inside check_for_revocation is freed
\* exactly once before check_for_revocation returns, on every exit path.
C10_CrlFreedOnce ==
  pc \in {"cfr_ret", "done"} =>
    \A k \in 1..Len(crlObjs) : crlObjs[k].frees = 1

(* -------------------- properties of the static functions --------------- *)
\* the call of op has returned or faulted; FnOut is what it did
Called(op) == fn.op = op /\ fn.out # <<>>

FnOut == fn.out[1]

\* download_crl came to an end without reading outside mapped memory
Downloaded == Called("download_crl") /\ FnOut.res # <<>>

DlRes == FnOut.res[1]

\* C11: download_crl releases the fetched raw buffer and, when allocated,
\* the base64-decoded buffer exactly once on every exit path.
C11_BuffersFreedOnce ==
  Downloaded =>
    /\ DlRes.dataFrees = DlRes.dataAllocs
    /\ DlRes.derFrees = DlRes.derAllocs

\* The checks of verify_crl in order and how each one ends for the answers v
CrlChecks == <<"issuer", "pubkey", "signature", "lastUpdate", "nextUpdate">>

CheckVerdict(v, c) ==
  IF c = "issuer" THEN (IF v.issuerRv > 0 THEN "pass" ELSE "fault")
  ELSE IF c = "pubkey" THEN (IF v.pkey THEN "pass" ELSE "fault")
  ELSE IF c = "signature"
  THEN (IF v.sigRv > 0 THEN "pass" ELSE IF v.sigRv = 0 THEN "negative" ELSE "fault")
  ELSE IF c = "lastUpdate"
  THEN (IF v.lastCmp < 0 THEN "pass" ELSE IF v.lastCmp > 0 THEN "negative" ELSE "fault")
  ELSE (IF v.nextCmp > 0 THEN "pass" ELSE IF v.nextCmp < 0 THEN "negative" ELSE "fault")

\* the checks that do not pass for v
NonPassing(v) == {k \in 1..Len(CrlChecks) : CheckVerdict(v, CrlChecks[k]) # "pass"}

FirstNonPassing(v) == CHOOSE k \in NonPassing(v) : \A h \in NonPassing(v) : k <= h

\* C12: verify_crl makes its checks in the order issuer, (public key,)
\* signature, lastUpdate, nextUpdate and stops at the first that does not
\* pass; it returns 1 only if all passed, 0 exactly when the first
\* non-passing check is a clean negative, -1 exactly when it is a fault.
C12_VerifyCrlOrder ==
  Called("verify_crl") =>
    IF NonPassing(fn.in) = {}
    THEN FnOut.rv = 1 /\ FnOut.trail = CrlChecks
    ELSE /\ FnOut.trail = SubSeq(CrlChecks, 1, FirstNonPassing(fn.in))
         /\ FnOut.rv =
              (IF CheckVerdict(fn.in, CrlChecks[FirstNonPassing(fn.in)]) = "negative"
               THEN 0 ELSE -1)

C12_Witness ==
  /\ Called("verify_crl")
  /\ fn.in.lastCmp > 0
  /\ fn.in.nextCmp = 0
  /\ FnOut.rv = 0
  /\ FnOut.trail = <<"issuer", "pubkey", "signature", "lastUpdate">>

\* the buffer of the call has the marker at byte offset at (from 0)
MarkerAt(data, at, marker) ==
  at + Len(marker) <= Len(data) /\ \A k \in 1..Len(marker) : data[at + k] = marker[k]

Occurrences(data, marker) == {at \in 0..Len(data) : MarkerAt(data, at, marker)}

\* both markers occur and a BEGIN marker precedes an END marker
WellFramed(data) ==
  \E b \in Occurrences(data, BeginMarker), e \in Occurrences(data, EndMarker) : b < e

\* both markers occur and every END marker precedes every BEGIN marker
ReversedFrame(data) ==
  /\ Occurrences(data, BeginMarker) # {}
  /\ Occurrences(data, EndMarker) # {}
  /\ ~WellFramed(data)

\* C14: download_crl takes the base64 path if and only if both markers
\* occur and BEGIN precedes END; a buffer with no markers is parsed as DER;
\* a buffer with the markers in reversed order yields no CRL.
C14_FramingDetection ==
  Called("download_crl") =>
    /\ FnOut.path = "base64" <=> WellFramed(fn.data)
    /\ (Occurrences(fn.data, BeginMarker) \cup Occurrences(fn.data, EndMarker) = {}) =>
         FnOut.path = "der"
    /\ ReversedFrame(fn.data) => (Downloaded /\ ~DlRes.crl)

\* C15: when base64_to_bin returns -1 download_crl returns no CRL and does
\* not call d2i_X509_CRL on the decode buffer; d2i_X509_CRL is only called
\* with the number of bytes decoded.
C15_DecodeFailureNotParsed ==
  (Downloaded /\ FnOut.path = "base64" /\ FnOut.b64 # <<>>) =>
    /\ FnOut.b64[1].ret = -1 => (~DlRes.crl /\ DlRes.d2iLen = <<>>)
    /\ DlRes.d2iLen # <<>> => DlRes.d2iLen = <<Len(FnOut.b64[1].out)>>

\* the string has a character that is neither in the alphabet nor '='
HasForeignChar(str) == \E k \in 1..Len(str) : ~IsAlphabetChar(str[k]) /\ str[k] # "="

\* C16: base64_to_bin returns -1 for every string with a character outside
\* the alphabet other than '='; such a character is never skipped.
C16_ForeignCharRejected ==
  (Called("base64_to_bin") /\ HasForeignChar(fn.str)) =>
    /\ FnOut.status = "return"
    /\ FnOut.ret = -1
    /\ FnOut.skipped = 0

\* C17: base64_to_bin never writes at an index >= buf_len; it returns -1 as
\* soon as the output would exceed buf_len; a non-negative return value is
\* at most buf_len and is the number of bytes written.
C17_WritesWithinCapacity ==
  Called("base64_to_bin") =>
    /\ Len(FnOut.out) <= fn.buf_len
    /\ (FnOut.status = "return" /\ FnOut.ret >= 0) =>
         (FnOut.ret = Len(FnOut.out) /\ FnOut.ret <= fn.buf_len)
    /\ (FnOut.status = "return" /\ FnOut.ret < 0) =>
         (FnOut.ret = -1 /\ Len(FnOut.out) = fn.buf_len)

C17_Witness ==
  /\ Called("base64_to_bin")
  /\ fn.buf_len = 2
  /\ Len(fn.str) > 4
  /\ FnOut.status = "return"
  /\ FnOut.ret = -1
  /\ Len(FnOut.out) = 2

\* C18: base64_to_bin only reads characters at indices below strlen(str):
\* str_len never wraps below zero and nothing at or past the NUL is read.
C18_ReadsBelowStrlen ==
  Called("base64_to_bin") =>
    /\ FnOut.status = "return"
    /\ FnOut.reads <= Len(fn.str)

\* C19: for every data_len, also below 24 or 22 and zero, the marker scans
\* only compare bytes at indices inside [0, data_len), and a buffer shorter
\* than the markers is classified as having no markers.
C19_ScansInsideBuffer ==
  Called("download_crl") =>
    /\ ~FnOut.oobRead
    /\ FnOut.path # "none"
    /\ Len(fn.data) < EndLen => FnOut.path = "der"

(* -------------------- distribution points and termination -------------- *)
AllSourcesFailed == <<"downloading the crl failed for all distribution points">>

\* C13: under ONLINE an empty sequence of URIs (extension absent, or present
\* without a URI-typed full-name entry) fails with NoDistributionPoint and
\* makes no fetch; AllSourcesFailed is reported only when at least one URI
\* was attempted.
C13_EmptyUriSequence ==
  /\ (pc = "online_done" /\ crl = 0) => UriSeq(dist_points) # <<>>
  /\ (pc = "cfr_ret" /\ rv = -1 /\ err = AllSourcesFailed) => fetchLog # <<>>

\* the policies check_for_revocation may be entered with, in call order,
\* in one call of verify_certificate with policy p
AttemptOrders(p) ==
  IF p = "CRLP_AUTO"
  THEN {<<>>, <<"CRLP_AUTO">>, <<"CRLP_AUTO", "CRLP_ONLINE">>,
        <<"CRLP_AUTO", "CRLP_ONLINE", "CRLP_OFFLINE">>}
  ELSE {<<>>, <<p>>}

\* AUTO makes at most one ONLINE then at most one OFFLINE attempt and never
\* re-enters AUTO, no URI is fetched twice, and no attempt verifies twice
C20_BoundedWork ==
  /\ cfrCalls \in AttemptOrders(policy)
  /\ \A k, h \in 1..Len(fetchLog) : FetchedPositions[k] = FetchedPositions[h] => k = h
  /\ Len(vc) <= 1
  /\ crlLookups <= 1

====
